---- MODULE Spec2Model ----
(***************************************************************************)
(* The three GitLab utilities of the repository as one state machine:      *)
(*   "rp"  remove-pipelines   (src/remove-pipelines.ts, lines 1-148)       *)
(*   "sv"  set-env-vars       (src/remove-pipelines.ts, lines 150-298)     *)
(*   "re"  remove-env-vars    (src/unnamed/part_000,    lines 104-251)     *)
(* A behaviour is one run of one utility against a remote whose answers    *)
(* are nondeterministic.  JavaScript runs a handler to its next await      *)
(* without interleaving, so every action is one such synchronous stretch.  *)
(***************************************************************************)
EXTENDS Integers, Sequences, FiniteSets, TLC

\* ------------------------------------------------------------ bounds
MaxPipelines == 4
MaxBatch == 3
MaxVariables == 3
MaxPageSize == 2
MaxEntries == 2
MaxElements == 1

\* ------------------------------------------------- program constants
DefaultBatchSize == 20
DefaultDelayMs == 1000
BatchSizeLimit == 100
ConfirmDelayMs == 5000

VARIABLES
  prog,          \* which utility this run executes
  env,           \* process.env: the raw settings
  pc,            \* where the run is suspended
  exitCode,      \* the process's exit status, meaningful once pc = "exited"
  net,           \* every request issued so far, in order, with its response
  cfg,           \* the parsed settings (BATCH_SIZE, DELAY_MS)
  rpRemote,      \* remote: the project's pipelines, in listing order
  page,          \* main's / fetchEnvironmentVariables' page counter
  totalDeleted,  \* remove-pipelines main: totalDeleted
  pipelines,     \* remove-pipelines main: the page being processed
  idx,           \* remove-pipelines main: position of the for-of loop
  hist,          \* remove-pipelines: the timers elapsed and the requests sent, in order
  reRemote,      \* remote: the keys of the environment's variables, in listing order
  pageSize,      \* remote: the number of items it serves per page of variables
  hasHeader,     \* remote: whether its list responses carry x-total-pages
  allVariables,  \* fetchEnvironmentVariables: allVariables
  hasMorePages,  \* fetchEnvironmentVariables: hasMorePages
  results,       \* removeAllEnvironmentVariables: one promise per deleteVariable call
  summary,       \* removeAllEnvironmentVariables: the printed summary
  svRemote,      \* remote: the keys that exist in the target environment scope
  file,          \* the input document found at ENV_FILE_PATH
  count,         \* set-env-vars main: count
  promises,      \* set-env-vars main: promises
  reported       \* set-env-vars main: the count of the final message

rpVars == <<rpRemote, totalDeleted, pipelines, idx, hist>>

reVars == <<reRemote, pageSize, hasHeader, allVariables, hasMorePages, results, summary>>

svVars == <<svRemote, file, count, promises, reported>>

vars == <<prog, env, pc, exitCode, net, cfg, page, rpVars, reVars, svVars>>

\* ------------------------------------------------------------ helpers
Min(a, b) == IF a < b THEN a ELSE b

SeqWithout(s, x) == SelectSeq(s, LAMBDA y : y # x)

Iota(n) == [i \in 1..n |-> i]

\* ------------------------------------------------------ the network
\* What a request can come back with: a success status, 404, another
\* non-success status, or no response at all (fetch rejects).
Responses == {"ok", "notfound", "error", "neterr"}

\* A request: its method, the resource it names (by page or pipeline id n, or
\* by variable key), whether it names the target environment scope, and the
\* response it got.
Request(method, target, n, key, scope) ==
  [method |-> method, target |-> target, n |-> n, key |-> key, scope |-> scope,
   resp |-> "pending"]

Issue(log, req) == Append(log, req)

Answer(log, i, status) == [log EXCEPT ![i].resp = status]

Pending(log) == {i \in 1..Len(log) : log[i].resp = "pending"}

\* The remote's page k of a collection c for page size p.
PageOf(c, k, p) == SubSeq(c, (k - 1) * p + 1, Min(k * p, Len(c)))

\* --------------------------------------------------- configuration
\* A string setting is absent, "", a non-empty text that is no URL, or a URL.
\* A numeric setting is absent, or a text: one that starts with no number, or
\* the digits of n, alone or followed by other characters.
NumRaw(S) ==
  {[present |-> FALSE, numeric |-> FALSE, n |-> 0, junk |-> FALSE],
   [present |-> TRUE, numeric |-> FALSE, n |-> 0, junk |-> TRUE]}
  \cup {[present |-> TRUE, numeric |-> TRUE, n |-> i, junk |-> j] : i \in S, j \in BOOLEAN}

Absent == [present |-> FALSE, numeric |-> FALSE, n |-> 0, junk |-> FALSE]

Digits(i) == [present |-> TRUE, numeric |-> TRUE, n |-> i, junk |-> FALSE]

\* parseInt reads the leading number and ignores what follows it; NaN when
\* the text starts with none.
parseInt(raw) == [nan |-> ~raw.numeric, n |-> IF raw.numeric THEN raw.n ELSE 0]

\* z.string().min(1, ...)
NonEmptyString(raw) == raw \in {"text", "url"}

\* Faulty variant of ValidUrl: any non-empty string passes.
ValidUrl_AnyString(raw) == raw \in {"text", "url"}

\* z.url(...)
ValidUrl(raw) == raw = "url"

\* BATCH_SIZE: string -> parseInt -> number().min(1).max(100), default 20
BatchSizeSetting(raw) ==
  IF ~raw.present THEN [ok |-> TRUE, val |-> DefaultBatchSize]
  ELSE LET p == parseInt(raw)
       IN IF p.nan \/ p.n < 1 \/ p.n > BatchSizeLimit
          THEN [ok |-> FALSE, val |-> 0]
          ELSE [ok |-> TRUE, val |-> p.n]

\* DELAY_MS: string -> parseInt -> number().min(0), default 1000
DelaySetting(raw) ==
  IF ~raw.present THEN [ok |-> TRUE, val |-> DefaultDelayMs]
  ELSE LET p == parseInt(raw)
       IN IF p.nan \/ p.n < 0
          THEN [ok |-> FALSE, val |-> 0]
          ELSE [ok |-> TRUE, val |-> p.n]

NoCfg == [BATCH_SIZE |-> 0, DELAY_MS |-> 0]

\* envSchema of remove-pipelines
rpEnvSchema(e) ==
  /\ NonEmptyString(e.GITLAB_TOKEN)
  /\ NonEmptyString(e.GITLAB_PROJECT_ID)
  /\ ValidUrl(e.GITLAB_API_URL)
  /\ BatchSizeSetting(e.BATCH_SIZE).ok
  /\ DelaySetting(e.DELAY_MS).ok

rpEnvs ==
  [GITLAB_TOKEN : {"missing", "empty", "text"},
   GITLAB_PROJECT_ID : {"missing", "empty", "text"},
   GITLAB_API_URL : {"missing", "empty", "text", "url"},
   GITLAB_ENVIRONMENT : {"missing"},
   ENV_FILE_PATH : {"missing"},
   BATCH_SIZE : NumRaw({0, BatchSizeLimit + 1} \cup 1..MaxBatch),
   DELAY_MS : NumRaw({-1, 0})]

\* ------------------------------------------------- remove-pipelines
\* fetchPipelines(page): the GET it sends.
fetchPipelines(k) == Request("GET", "pipelines", k, "", "none")

\* deletePipeline(id): the DELETE it sends.
deletePipeline(id) == Request("DELETE", "pipeline", id, "", "none")

\* Faulty variant of fetchPipelinesThrows: a failed page fetch goes unnoticed.
fetchPipelinesThrows_Never(status) == FALSE

\* fetchPipelines throws: fetch rejected, or !response.ok
fetchPipelinesThrows(status) == status # "ok"

\* Faulty variant of deletePipelineThrows: a failed delete goes unnoticed.
deletePipelineThrows_Never(status) == FALSE

\* deletePipeline throws: fetch rejected, or !response.ok
deletePipelineThrows(status) == status # "ok"

\* Events of a remove-pipelines run: a timer has elapsed after ms
\* milliseconds (the confirmation delay, or a sleep), or a request was sent.
Elapsed(what, ms) == [ev |-> what, ms |-> ms]

Sent(req) == [ev |-> req.method, ms |-> 0]

\* Faulty variant of confirmation: main() is called at once.
confirmation_Skipped == <<>>

\* setTimeout(() => { main(); }, 5000): what precedes main
confirmation == <<Elapsed("confirm", ConfirmDelayMs)>>

\* Faulty variant of sleepDelay: no delay between the requests.
sleepDelay_None == <<>>

\* await sleep(DELAY_MS): what precedes the next request
sleepDelay == <<Elapsed("sleep", cfg.DELAY_MS)>>

\* Faulty variant of sleepResolves: the promise of sleep is never resolved.
sleepResolves_Never == FALSE

\* new Promise((resolve) => setTimeout(resolve, ms)): the timer resolves it
sleepResolves == TRUE

\* Module top level: envSchema.parse(process.env) throws on an invalid
\* configuration (uncaught: the process ends with status 1); otherwise the
\* warning is printed and the 5 s timer is armed.
RpStartup ==
  /\ prog = "rp" /\ pc = "start"
  /\ IF rpEnvSchema(env)
     THEN /\ cfg' = [BATCH_SIZE |-> BatchSizeSetting(env.BATCH_SIZE).val,
                     DELAY_MS |-> DelaySetting(env.DELAY_MS).val]
          /\ pc' = "confirm"
          /\ UNCHANGED exitCode
     ELSE /\ pc' = "exited"
          /\ exitCode' = 1
          /\ UNCHANGED cfg
  /\ UNCHANGED <<prog, env, net, rpRemote, page, totalDeleted, pipelines, idx, hist,
                 reVars, svVars>>

\* The timer fires: main() runs to its first await, the fetch of page 1.
RpMain ==
  /\ prog = "rp" /\ pc = "confirm"
  /\ page' = 1
  /\ totalDeleted' = 0
  /\ pipelines' = <<>>
  /\ idx' = 0
  /\ net' = Issue(net, fetchPipelines(1))
  /\ hist' = hist \o confirmation \o <<Sent(fetchPipelines(1))>>
  /\ pc' = "fetching"
  /\ UNCHANGED <<prog, env, exitCode, cfg, rpRemote, reVars, svVars>>

\* fetchPipelines returns.  A non-success response or a rejected fetch throws
\* through main's catch: process.exit(1).  An empty page breaks the loop and
\* main ends normally.  Otherwise the for-of loop starts with the first DELETE.
RpFetchReturn(status) ==
  /\ prog = "rp" /\ pc = "fetching"
  /\ LET i == Len(net)
         got == IF status = "ok" THEN PageOf(rpRemote, page, cfg.BATCH_SIZE) ELSE <<>>
     IN IF fetchPipelinesThrows(status)
        THEN /\ net' = Answer(net, i, status)
             /\ pc' = "exited" /\ exitCode' = 1
             /\ UNCHANGED <<pipelines, idx, hist>>
        ELSE /\ pipelines' = got
             /\ IF Len(got) = 0
                THEN /\ net' = Answer(net, i, status)
                     /\ pc' = "exited" /\ exitCode' = 0
                     /\ UNCHANGED <<idx, hist>>
                ELSE /\ net' = Issue(Answer(net, i, status), deletePipeline(got[1]))
                     /\ hist' = Append(hist, Sent(deletePipeline(got[1])))
                     /\ idx' = 1
                     /\ pc' = "deleting"
                     /\ UNCHANGED exitCode
  /\ UNCHANGED <<prog, env, cfg, rpRemote, page, totalDeleted, reVars, svVars>>

\* deletePipeline returns.  On success the remote no longer holds the pipeline,
\* totalDeleted is incremented and the run sleeps; anything else throws through
\* main's catch: process.exit(1).
RpDeleteReturn(status) ==
  /\ prog = "rp" /\ pc = "deleting"
  /\ net' = Answer(net, Len(net), status)
  /\ rpRemote' = IF status = "ok" THEN SeqWithout(rpRemote, pipelines[idx]) ELSE rpRemote
  /\ IF deletePipelineThrows(status)
     THEN /\ pc' = "exited" /\ exitCode' = 1
          /\ UNCHANGED totalDeleted
     ELSE /\ totalDeleted' = totalDeleted + 1
          /\ pc' = "sleeping"
          /\ UNCHANGED exitCode
  /\ UNCHANGED <<prog, env, cfg, page, pipelines, idx, hist, reVars, svVars>>

\* sleep(DELAY_MS) elapses: the for-of loop goes on with the next pipeline of
\* the page, or, at the page's end, page++ and the next page is fetched.
RpSleepDone ==
  /\ prog = "rp" /\ pc = "sleeping"
  /\ sleepResolves
  /\ IF idx < Len(pipelines)
     THEN /\ idx' = idx + 1
          /\ net' = Issue(net, deletePipeline(pipelines[idx + 1]))
          /\ hist' = hist \o sleepDelay \o <<Sent(deletePipeline(pipelines[idx + 1]))>>
          /\ pc' = "deleting"
          /\ UNCHANGED page
     ELSE /\ page' = page + 1
          /\ net' = Issue(net, fetchPipelines(page + 1))
          /\ hist' = hist \o sleepDelay \o <<Sent(fetchPipelines(page + 1))>>
          /\ pc' = "fetching"
          /\ UNCHANGED idx
  /\ UNCHANGED <<prog, env, exitCode, cfg, rpRemote, totalDeleted, pipelines, reVars, svVars>>

\* ------------------------------------------------- remove-env-vars
\* The natural keys of variables: object keys of an input document, and the
\* variables of an environment.
KeyNames == <<"A", "B", "C", "D", "E", "F">>

\* envSchema of remove-env-vars
reEnvSchema(e) ==
  /\ NonEmptyString(e.GITLAB_TOKEN)
  /\ NonEmptyString(e.GITLAB_PROJECT_ID)
  /\ ValidUrl(e.GITLAB_API_URL)
  /\ NonEmptyString(e.GITLAB_ENVIRONMENT)

reEnvs ==
  [GITLAB_TOKEN : {"missing", "empty", "text"},
   GITLAB_PROJECT_ID : {"missing", "empty", "text"},
   GITLAB_API_URL : {"missing", "empty", "text", "url"},
   GITLAB_ENVIRONMENT : {"missing", "empty", "text"},
   ENV_FILE_PATH : {"missing"},
   BATCH_SIZE : {Absent},
   DELAY_MS : {Absent}]

\* The GET fetchEnvironmentVariables sends for page k.
fetchVariablesPage(k) == Request("GET", "variables", k, "", "env")

\* deleteVariable(key): the DELETE it sends.
deleteVariable(key) == Request("DELETE", "variable", 0, key, "none")

\* The remote's x-total-pages header for collection c and page size p.
TotalPagesHeader(c, p, sent) ==
  IF sent THEN Digits((Len(c) + p - 1) \div p) ELSE Absent

\* parseInt(response.headers.get("x-total-pages") || "1")
totalPages(header) ==
  parseInt(IF header.present THEN header ELSE Digits(1))

\* Faulty variant of MorePages: the loop stops one page early.
MorePages_OffByOne(k, tp) == ~tp.nan /\ k + 1 < tp.n

\* hasMorePages = page < totalPages  (a comparison with NaN is false)
MorePages(k, tp) == ~tp.nan /\ k < tp.n

\* Faulty variant of fetchVariablesThrows: a failed page fetch goes unnoticed.
fetchVariablesThrows_Never(status) == FALSE

\* fetchEnvironmentVariables throws: fetch rejected, or !response.ok
fetchVariablesThrows(status) == status # "ok"

\* deleteVariable throws: fetch rejected, or !response.ok
deleteVariableThrows(status) == status # "ok"

\* Faulty variant of allSettled: it resolves as Promise.all rejects, as soon as
\* one promise is rejected.
allSettled_AnyRejected(rs) ==
  \/ \A j \in 1..Len(rs) : rs[j].state # "pending"
  \/ \E j \in 1..Len(rs) : rs[j].state = "rejected"

\* Promise.allSettled resolves once every promise is fulfilled or rejected
allSettled(rs) == \A j \in 1..Len(rs) : rs[j].state # "pending"

\* variables.map((variable) => deleteVariable(variable.key)): every DELETE is
\* sent, in listing order, before anything is awaited.
DispatchDeletes(log, vs) ==
  log \o [i \in 1..Len(vs) |-> deleteVariable(vs[i])]

CountOf(rs, st) == Cardinality({i \in 1..Len(rs) : rs[i].state = st})

NoSummary == [processed |-> 0, succeeded |-> 0, failed |-> 0]

\* Module top level: envSchema.parse, then removeAllEnvironmentVariables()
\* runs into fetchEnvironmentVariables up to the fetch of page 1.
ReStartup ==
  /\ prog = "re" /\ pc = "start"
  /\ IF reEnvSchema(env)
     THEN /\ page' = 1
          /\ allVariables' = <<>>
          /\ hasMorePages' = TRUE
          /\ net' = Issue(net, fetchVariablesPage(1))
          /\ pc' = "listing"
          /\ UNCHANGED exitCode
     ELSE /\ pc' = "exited" /\ exitCode' = 1
          /\ UNCHANGED <<page, allVariables, hasMorePages, net>>
  /\ UNCHANGED <<prog, env, cfg, rpVars, reRemote, pageSize, hasHeader, results,
                 summary, svVars>>

\* A page of variables returns.  A failure throws through both catch blocks:
\* process.exit(1).  Otherwise the page is appended; while more pages are
\* signalled the next one is fetched; at the end an empty listing returns
\* (the process ends with status 0) and a non-empty one sends all its DELETEs.
ReFetchReturn(status) ==
  /\ prog = "re" /\ pc = "listing"
  /\ LET i == Len(net)
         variables == IF status = "ok" THEN PageOf(reRemote, page, pageSize) ELSE <<>>
         all == allVariables \o variables
         more == MorePages(page, totalPages(TotalPagesHeader(reRemote, pageSize, hasHeader)))
     IN IF fetchVariablesThrows(status)
        THEN /\ net' = Answer(net, i, status)
             /\ pc' = "exited" /\ exitCode' = 1
             /\ UNCHANGED <<page, allVariables, hasMorePages, results>>
        ELSE /\ allVariables' = all
             /\ hasMorePages' = more
             /\ page' = page + 1
             /\ IF more
                THEN /\ net' = Issue(Answer(net, i, status), fetchVariablesPage(page + 1))
                     /\ UNCHANGED <<pc, exitCode, results>>
                ELSE IF Len(all) = 0
                     THEN /\ net' = Answer(net, i, status)
                          /\ pc' = "exited" /\ exitCode' = 0
                          /\ UNCHANGED results
                     ELSE /\ net' = DispatchDeletes(Answer(net, i, status), all)
                          /\ results' = [j \in 1..Len(all) |->
                                           [key |-> all[j], state |-> "pending", req |-> i + j]]
                          /\ pc' = "deleting"
                          /\ UNCHANGED exitCode
  /\ UNCHANGED <<prog, env, cfg, rpVars, reRemote, pageSize, hasHeader, summary, svVars>>

\* One deleteVariable call returns: its promise is fulfilled on a success
\* response (the remote no longer holds the key) and rejected otherwise.
ReDeleteReturn(j, status) ==
  /\ prog = "re" /\ pc = "deleting"
  /\ j \in 1..Len(results)
  /\ results[j].state = "pending"
  /\ net' = Answer(net, results[j].req, status)
  /\ results' = [results EXCEPT ![j].state =
                    IF deleteVariableThrows(status) THEN "rejected" ELSE "fulfilled"]
  /\ reRemote' = IF status = "ok" THEN SeqWithout(reRemote, results[j].key) ELSE reRemote
  /\ UNCHANGED <<prog, env, pc, exitCode, cfg, page, rpVars, pageSize, hasHeader,
                 allVariables, hasMorePages, summary, svVars>>

\* Promise.allSettled resolves: the outcomes are counted, the summary is
\* printed and the exit status follows the number of failures.
ReAllSettled ==
  /\ prog = "re" /\ pc = "deleting"
  /\ allSettled(results)
  /\ LET successes == CountOf(results, "fulfilled")
         failures == CountOf(results, "rejected")
     IN /\ summary' = [processed |-> Len(allVariables), succeeded |-> successes,
                       failed |-> failures]
        /\ exitCode' = IF failures > 0 THEN 1 ELSE 0
  /\ pc' = "exited"
  /\ UNCHANGED <<prog, env, net, cfg, page, rpVars, reRemote, pageSize, hasHeader,
                 allVariables, hasMorePages, results, svVars>>

\* ---------------------------------------------------- set-env-vars
\* The kinds of JSON value: of the document's top level and of its entries.
JsonKinds == {"string", "number", "boolean", "null", "object", "array"}

\* JavaScript's typeof on a parsed JSON value.
typeof(kind) ==
  CASE kind = "string" -> "string"
    [] kind = "number" -> "number"
    [] kind = "boolean" -> "boolean"
    [] kind \in {"null", "object", "array"} -> "object"

\* The keys Object.entries gives the elements of an array.
IndexNames == <<"0", "1", "2", "3", "4", "5">>

SeqsUpTo(S, n) == UNION {[1..k -> S] : k \in 0..n}

NoFile == [exists |-> FALSE, wellFormed |-> FALSE, top |-> "null", values |-> <<>>]

\* What can be found at ENV_FILE_PATH: nothing, a text that is not JSON, or a
\* JSON value; an object holds up to MaxEntries values, an array up to
\* MaxElements.
Files ==
  {NoFile, [NoFile EXCEPT !.exists = TRUE]}
  \cup {[exists |-> TRUE, wellFormed |-> TRUE, top |-> t, values |-> <<>>] :
          t \in {"string", "number", "boolean", "null"}}
  \cup {[exists |-> TRUE, wellFormed |-> TRUE, top |-> "object", values |-> v] :
          v \in SeqsUpTo(JsonKinds, MaxEntries)}
  \cup {[exists |-> TRUE, wellFormed |-> TRUE, top |-> "array", values |-> v] :
          v \in SeqsUpTo(JsonKinds, MaxElements)}

\* Object.entries(envVariables)
ObjectEntries(f) ==
  [i \in 1..Len(f.values) |->
     [key |-> IF f.top = "array" THEN IndexNames[i] ELSE KeyNames[i],
      kind |-> f.values[i]]]

\* Faulty variant of IsPrimitive: everything but an object or an array passes,
\* null included.
IsPrimitive_NullToo(entry) == entry.kind \notin {"object", "array"}

\* typeof value === "string" || ... "number" || ... "boolean"
IsPrimitive(entry) == typeof(entry.kind) \in {"string", "number", "boolean"}

\* The document passes: not (typeof envVariables !== "object" || envVariables === null)
PassesObjectCheck(f) == ~(typeof(f.top) # "object" \/ f.top = "null")

\* envSchema of set-env-vars
svEnvSchema(e) ==
  /\ NonEmptyString(e.ENV_FILE_PATH)
  /\ NonEmptyString(e.GITLAB_ENVIRONMENT)
  /\ NonEmptyString(e.GITLAB_TOKEN)
  /\ NonEmptyString(e.GITLAB_PROJECT_ID)
  /\ ValidUrl(e.GITLAB_API_URL)

svEnvs ==
  [GITLAB_TOKEN : {"missing", "empty", "text"},
   GITLAB_PROJECT_ID : {"missing", "empty", "text"},
   GITLAB_API_URL : {"missing", "empty", "text", "url"},
   GITLAB_ENVIRONMENT : {"missing", "empty", "text"},
   ENV_FILE_PATH : {"missing", "empty", "text"},
   BATCH_SIZE : {Absent},
   DELAY_MS : {Absent}]

\* setGitLabVariable: its update request and its create request.
updateRequest(key) == Request("PUT", "variable", 0, key, "env")

createRequest(key) == Request("POST", "variables", 0, key, "env")

\* Faulty variant of updateNotFound: every failed update falls back to a create.
updateNotFound_AnyFailure(status) == status # "ok"

\* updateResponse.status === 404
updateNotFound(status) == status = "notfound"

\* setGitLabVariable throws after the update: fetch rejected, or !updateResponse.ok
updateThrows(status) == status \notin {"ok", "notfound"}

\* Faulty variant of createThrows: a failed create goes unnoticed.
createThrows_Never(status) == FALSE

\* setGitLabVariable throws after the create: fetch rejected, or !createResponse.ok
createThrows(status) == status # "ok"

\* The for loop of main: setGitLabVariable is called, and so its PUT is sent,
\* for every entry with a primitive value, in document order.
DispatchUpserts(log, entries) ==
  LET todo == SelectSeq(entries, IsPrimitive)
  IN log \o [i \in 1..Len(todo) |-> updateRequest(todo[i].key)]

NewPromises(log, entries) ==
  LET todo == SelectSeq(entries, IsPrimitive)
  IN [i \in 1..Len(todo) |-> [key |-> todo[i].key, state |-> "put", req |-> Len(log) + i]]

\* Module top level: envSchema.parse, then the existsSync check.
SvStartup(f) ==
  /\ prog = "sv" /\ pc = "start"
  /\ f \in Files
  /\ IF ~svEnvSchema(env)
     THEN /\ pc' = "exited" /\ exitCode' = 1
          /\ UNCHANGED file
     ELSE /\ file' = f
          /\ IF ~f.exists
             THEN pc' = "exited" /\ exitCode' = 1
             ELSE pc' = "main" /\ UNCHANGED exitCode
  /\ UNCHANGED <<prog, env, net, cfg, page, rpVars, reVars, svRemote, count,
                 promises, reported>>

\* main() up to await Promise.all: read and parse the document (a throw goes to
\* the catch: process.exit(1)), check that it is an object, start the upserts.
SvMain ==
  /\ prog = "sv" /\ pc = "main"
  /\ IF ~file.wellFormed \/ ~PassesObjectCheck(file)
     THEN /\ pc' = "exited" /\ exitCode' = 1
          /\ UNCHANGED <<net, count, promises>>
     ELSE /\ count' = 0
          /\ promises' = NewPromises(net, ObjectEntries(file))
          /\ net' = DispatchUpserts(net, ObjectEntries(file))
          /\ pc' = "awaiting"
          /\ UNCHANGED exitCode
  /\ UNCHANGED <<prog, env, cfg, page, rpVars, reVars, svRemote, file, reported>>

\* The PUT of setGitLabVariable returns.  404: the POST is sent.  Another
\* non-success response, or a rejected fetch, throws: the promise's catch logs
\* it.  Success: the then callback increments count.
\* The remote answers with success only for a key it holds in the scope and
\* with 404 only for one it does not.
SvPutReturn(i, status) ==
  /\ prog = "sv" /\ pc = "awaiting"
  /\ i \in 1..Len(promises)
  /\ promises[i].state = "put"
  /\ status = "ok" => promises[i].key \in svRemote
  /\ status = "notfound" => promises[i].key \notin svRemote
  /\ LET answered == Answer(net, promises[i].req, status)
     IN IF updateNotFound(status)
        THEN /\ net' = Issue(answered, createRequest(promises[i].key))
             /\ promises' = [promises EXCEPT ![i].state = "post", ![i].req = Len(net) + 1]
             /\ UNCHANGED count
        ELSE IF updateThrows(status)
        THEN /\ net' = answered
             /\ promises' = [promises EXCEPT ![i].state = "rejected"]
             /\ UNCHANGED count
        ELSE /\ net' = answered
             /\ promises' = [promises EXCEPT ![i].state = "fulfilled"]
             /\ count' = count + 1
  /\ UNCHANGED <<prog, env, pc, exitCode, cfg, page, rpVars, reVars, svRemote, file,
                 reported>>

\* The POST of setGitLabVariable returns: created (the then callback
\* increments count), or a failure that the promise's catch logs.
SvPostReturn(i, status) ==
  /\ prog = "sv" /\ pc = "awaiting"
  /\ i \in 1..Len(promises)
  /\ promises[i].state = "post"
  /\ net' = Answer(net, promises[i].req, status)
  /\ svRemote' = IF status = "ok" THEN svRemote \cup {promises[i].key} ELSE svRemote
  /\ IF createThrows(status)
     THEN /\ promises' = [promises EXCEPT ![i].state = "rejected"]
          /\ UNCHANGED count
     ELSE /\ promises' = [promises EXCEPT ![i].state = "fulfilled"]
          /\ count' = count + 1
  /\ UNCHANGED <<prog, env, pc, exitCode, cfg, page, rpVars, reVars, file, reported>>

\* Faulty variant of promiseAll: it resolves as Promise.race does, as soon as
\* one call has finished.
promiseAll_FirstSettled(ps) ==
  \E i \in 1..Len(ps) : ps[i].state \in {"fulfilled", "rejected"}

\* await Promise.all(promises): every element carries its own catch, so none
\* rejects, and the await ends once every call has finished.
promiseAll(ps) ==
  \A i \in 1..Len(ps) : ps[i].state \in {"fulfilled", "rejected"}

\* Promise.all resolves (no promise of the array ever rejects: each has its
\* catch): the count is printed and main returns; the process ends with 0.
SvAllSettled ==
  /\ prog = "sv" /\ pc = "awaiting"
  /\ promiseAll(promises)
  /\ reported' = count
  /\ pc' = "exited" /\ exitCode' = 0
  /\ UNCHANGED <<prog, env, net, cfg, page, rpVars, reVars, svRemote, file, count,
                 promises>>

\* ------------------------------------------------------ specification
Idle ==
  /\ pc = "start"
  /\ exitCode = 0
  /\ net = <<>>
  /\ cfg = NoCfg
  /\ page = 0
  /\ totalDeleted = 0 /\ pipelines = <<>> /\ idx = 0 /\ hist = <<>>
  /\ allVariables = <<>> /\ hasMorePages = FALSE /\ results = <<>>
  /\ summary = NoSummary
  /\ file = NoFile /\ count = 0 /\ promises = <<>> /\ reported = 0

InitRp ==
  /\ prog = "rp"
  /\ env \in rpEnvs
  /\ rpRemote \in {Iota(n) : n \in 0..MaxPipelines}
  /\ reRemote = <<>> /\ pageSize = 1 /\ hasHeader = FALSE
  /\ svRemote = {}

InitRe ==
  /\ prog = "re"
  /\ env \in reEnvs
  /\ reRemote \in {SubSeq(KeyNames, 1, n) : n \in 0..MaxVariables}
  /\ pageSize \in 1..MaxPageSize
  /\ hasHeader \in BOOLEAN
  /\ rpRemote = <<>>
  /\ svRemote = {}

InitSv ==
  /\ prog = "sv"
  /\ env \in svEnvs
  /\ svRemote \in SUBSET {KeyNames[i] : i \in 1..MaxEntries}
  /\ rpRemote = <<>>
  /\ reRemote = <<>> /\ pageSize = 1 /\ hasHeader = FALSE

Init == Idle /\ (InitRp \/ InitRe \/ InitSv)

Next ==
  \/ RpStartup
  \/ RpMain
  \/ \E s \in Responses : RpFetchReturn(s)
  \/ \E s \in Responses : RpDeleteReturn(s)
  \/ RpSleepDone
  \/ ReStartup
  \/ \E s \in Responses : ReFetchReturn(s)
  \/ \E j \in 1..MaxVariables, s \in Responses : ReDeleteReturn(j, s)
  \/ ReAllSettled
  \/ \E f \in Files : SvStartup(f)
  \/ SvMain
  \/ \E i \in 1..MaxEntries, s \in Responses : SvPutReturn(i, s)
  \/ \E i \in 1..MaxEntries, s \in Responses : SvPostReturn(i, s)
  \/ SvAllSettled

Spec == Init /\ [][Next]_vars

\* remove-pipelines alone, with every pending event of its event loop (the
\* confirmation timer, a response to the outstanding request, the sleep
\* timer) eventually delivered.
RpNext ==
  \/ RpStartup
  \/ RpMain
  \/ \E s \in Responses : RpFetchReturn(s)
  \/ \E s \in Responses : RpDeleteReturn(s)
  \/ RpSleepDone

RpInit == Idle /\ InitRp

RpFairSpec == RpInit /\ [][RpNext]_vars /\ WF_vars(RpNext)

\* ------------------------------------------------------------ claims
Failed(r) == r.resp \notin {"ok", "pending"}

Deletes(log) == SelectSeq(log, LAMBDA r : r.method = "DELETE")

Gets(log) == SelectSeq(log, LAMBDA r : r.method = "GET")

\* C1: a remove-pipelines run in which every list and delete request succeeds
\* deletes every pipeline that existed at the start: none remains at its end.
C1_AllPipelinesDeleted ==
  (/\ prog = "rp" /\ pc = "exited" /\ exitCode = 0
   /\ net # <<>>
   /\ \A i \in 1..Len(net) : net[i].resp = "ok")
  => rpRemote = <<>>

\* An item mutation failed: a DELETE of remove-pipelines came back failed, a
\* deleteVariable promise or the upsert of a key was rejected.
ItemFailed ==
  \/ prog = "rp" /\ \E i \in 1..Len(net) : net[i].method = "DELETE" /\ Failed(net[i])
  \/ prog = "re" /\ \E j \in 1..Len(results) : results[j].state = "rejected"
  \/ prog = "sv" /\ \E i \in 1..Len(promises) : promises[i].state = "rejected"

\* The run aborted on a listing error.
ListingFailed == \E i \in 1..Len(net) : net[i].method = "GET" /\ Failed(net[i])

\* C2: a run of any of the three utilities in which an item mutation failed,
\* or which aborted, ends with a non-zero exit status.
C2_FailureExitsNonZero ==
  (pc = "exited" /\ (ItemFailed \/ ListingFailed)) => exitCode # 0

\* C3: per primitive-valued key there is exactly one PUT, sent first and
\* naming the key and the target environment scope; a POST
\* for the key exists iff that PUT came back 404, and at most one; a successful
\* PUT or POST fulfils the key's promise; any other response to the PUT, and
\* any non-success response to the POST, rejects it; nothing else is requested.
C3_UpsertProtocol ==
  prog = "sv" =>
    /\ \A j \in 1..Len(net) :
         /\ net[j].method \in {"PUT", "POST"}
         /\ net[j].scope = "env"
         /\ \E i \in 1..Len(promises) : promises[i].key = net[j].key
    /\ \A i \in 1..Len(promises) :
         LET k == promises[i].key
             P == {j \in 1..Len(net) : net[j].method = "PUT" /\ net[j].key = k}
             C == {j \in 1..Len(net) : net[j].method = "POST" /\ net[j].key = k}
         IN /\ Cardinality(P) = 1
            /\ Cardinality(C) <= 1
            /\ \A p \in P :
                 /\ C # {} <=> net[p].resp = "notfound"
                 /\ \A c \in C : p < c
                 /\ net[p].resp = "ok" => promises[i].state = "fulfilled"
                 /\ net[p].resp \in {"error", "neterr"} => promises[i].state = "rejected"
            /\ \A c \in C :
                 /\ net[c].resp = "ok" => promises[i].state = "fulfilled"
                 /\ Failed(net[c]) => promises[i].state = "rejected"

C3_Witness ==
  /\ prog = "sv" /\ pc = "exited"
  /\ \E i, j \in 1..Len(promises) :
       /\ \E p, c \in 1..Len(net) :
            /\ net[p] = [updateRequest(promises[i].key) EXCEPT !.resp = "notfound"]
            /\ net[c] = [createRequest(promises[i].key) EXCEPT !.resp = "ok"]
       /\ \E p \in 1..Len(net) :
            net[p] = [updateRequest(promises[j].key) EXCEPT !.resp = "ok"]

\* C4: once a DELETE of remove-pipelines has come back failed it is the last
\* request of the run, the run has exited non-zero, every DELETE before it
\* succeeded, and the number of DELETEs sent is totalDeleted + 1.
C4_FirstFailureStops ==
  prog = "rp" =>
    \A j \in 1..Len(net) :
      (net[j].method = "DELETE" /\ Failed(net[j])) =>
        /\ j = Len(net)
        /\ pc = "exited" /\ exitCode # 0
        /\ LET D == Deletes(net)
           IN /\ Len(D) = totalDeleted + 1
              /\ \A k \in 1..(Len(D) - 1) : D[k].resp = "ok"
              /\ \A k, l \in 1..Len(D) : k # l => D[k].n # D[l].n

C4_Witness ==
  /\ prog = "rp" /\ pc = "exited" /\ exitCode = 1
  /\ page = 2 /\ totalDeleted = 1
  /\ net # <<>>
  /\ net[Len(net)].method = "DELETE" /\ net[Len(net)].resp = "error"

\* C5: in remove-env-vars one DELETE is sent for each listed variable, all of
\* them before any is awaited, and the summary reports K processed, K - F
\* succeeded and F failed, F being the number of DELETEs that did not succeed.
C5_ParallelSummary ==
  (prog = "re" /\ results # <<>>) =>
    LET K == Len(allVariables)
        D == Deletes(net)
        F == Cardinality({i \in 1..Len(D) : D[i].resp # "ok"})
    IN /\ Len(D) = K
       /\ \A i \in 1..K : D[i].key = allVariables[i]
       /\ pc = "exited" =>
            /\ \A i \in 1..K : D[i].resp # "pending"
            /\ summary = [processed |-> K, succeeded |-> K - F, failed |-> F]

C5_Witness ==
  /\ prog = "re" /\ pc = "exited"
  /\ Len(results) = 3
  /\ results[1].state = "rejected"
  /\ summary = [processed |-> 3, succeeded |-> 2, failed |-> 1]

\* C6: when the remote sends x-total-pages, fetchEnvironmentVariables returns
\* exactly the remote's items in order, having fetched pages 1..ceil(N/P) once
\* each; for N = 0 it returns the empty sequence after fetching page 1 alone.
C6_ListingComplete ==
  (prog = "re" /\ hasHeader) =>
    /\ (pc = "deleting" /\ \A j \in 1..Len(results) : results[j].state = "pending") =>
         LET G == Gets(net)
         IN /\ allVariables = reRemote
            /\ Len(G) = (Len(reRemote) + pageSize - 1) \div pageSize
            /\ \A i \in 1..Len(G) : G[i].n = i /\ G[i].resp = "ok"
    /\ (pc = "exited" /\ exitCode = 0 /\ results = <<>>) =>
         /\ reRemote = <<>>
         /\ allVariables = <<>>
         /\ net = <<[fetchVariablesPage(1) EXCEPT !.resp = "ok"]>>

C6_Witness ==
  /\ prog = "re" /\ hasHeader /\ pc = "deleting"
  /\ pageSize = 2
  /\ Len(allVariables) = 3
  /\ \A j \in 1..Len(results) : results[j].state = "pending"

\* C7: once a page fetch of remove-env-vars has come back failed it is the
\* last request of the run, no DELETE was or is ever sent, no promise exists
\* and the run has exited non-zero.
C7_ListingFailFast ==
  prog = "re" =>
    \A i \in 1..Len(net) :
      (net[i].method = "GET" /\ Failed(net[i])) =>
        /\ i = Len(net)
        /\ pc = "exited" /\ exitCode # 0
        /\ Deletes(net) = <<>>
        /\ results = <<>>

C7_Witness ==
  /\ prog = "re" /\ pc = "exited"
  /\ Len(net) = 2
  /\ net[2].method = "GET" /\ Failed(net[2])
  /\ allVariables # <<>>

RequiredSettings(p) ==
  {"GITLAB_TOKEN", "GITLAB_PROJECT_ID", "GITLAB_API_URL"}
  \cup (IF p \in {"re", "sv"} THEN {"GITLAB_ENVIRONMENT"} ELSE {})
  \cup (IF p = "sv" THEN {"ENV_FILE_PATH"} ELSE {})

\* A required setting is missing or empty, or the API URL is no URL.
LacksSetting(p, e) ==
  \/ \E f \in RequiredSettings(p) : e[f] \in {"missing", "empty"}
  \/ e.GITLAB_API_URL # "url"

\* C9: with a required setting missing or malformed, no request is ever sent
\* and the first step of the run ends it with a non-zero exit status.
C9_BadConfigNoRequests ==
  LacksSetting(prog, env) =>
    /\ net = <<>>
    /\ pc \in {"start", "exited"}
    /\ pc = "exited" => exitCode # 0

C9_Witness ==
  /\ prog = "sv" /\ pc = "exited" /\ exitCode = 1
  /\ env.GITLAB_TOKEN = "text" /\ env.GITLAB_PROJECT_ID = "text"
  /\ env.GITLAB_ENVIRONMENT = "text" /\ env.ENV_FILE_PATH = "text"
  /\ env.GITLAB_API_URL = "text"

\* The input document is missing, is not JSON, or its top-level value is null,
\* a primitive or an array.
BadDocument(f) ==
  \/ ~f.exists
  \/ ~f.wellFormed
  \/ f.top \in {"null", "string", "number", "boolean", "array"}

\* C10: a set-env-vars run with a valid configuration and such a document
\* ends with a non-zero exit status and sends no request.
C10_DocumentErrorsFatal ==
  (prog = "sv" /\ svEnvSchema(env) /\ pc \notin {"start", "main"} /\ BadDocument(file)) =>
    /\ net = <<>>
    /\ pc = "exited" => exitCode # 0

\* main of set-env-vars has run its for loop over the document's entries.
SvLoopRan ==
  /\ prog = "sv" /\ pc \in {"awaiting", "exited"}
  /\ file.wellFormed /\ PassesObjectCheck(file)

\* The positions of the document's entries whose value is a string, a number
\* or a boolean.
PrimitiveEntries(f) ==
  {i \in 1..Len(f.values) : f.values[i] \in {"string", "number", "boolean"}}

\* C11: an entry whose value is null, an object or an array gets no request
\* and no promise; the attempted entries are exactly the primitive-valued
\* ones, each with its promise and its PUT; count never exceeds their number;
\* and the run still ends with exit status 0, reporting the fulfilled ones.
C11_SkipsNonPrimitive ==
  SvLoopRan =>
    LET E == ObjectEntries(file)
        prim == PrimitiveEntries(file)
    IN /\ \A i \in (1..Len(E)) \ prim :
            /\ \A j \in 1..Len(net) : net[j].key # E[i].key
            /\ \A q \in 1..Len(promises) : promises[q].key # E[i].key
       /\ Len(promises) = Cardinality(prim)
       /\ \A i \in prim :
            /\ Cardinality({q \in 1..Len(promises) : promises[q].key = E[i].key}) = 1
            /\ \E j \in 1..Len(net) : net[j].method = "PUT" /\ net[j].key = E[i].key
       /\ count <= Cardinality(prim)
       /\ pc = "exited" =>
            /\ exitCode = 0
            /\ reported = Cardinality({q \in 1..Len(promises) : promises[q].state = "fulfilled"})

C11_Witness ==
  /\ prog = "sv" /\ pc = "exited"
  /\ file.exists /\ file.wellFormed /\ file.top = "object"
  /\ file.values = <<"null", "string">>
  /\ reported = 1

\* C12: the count of the final message is K - F, K being the number of
\* primitive-valued entries of the document and F the number of them whose
\* PUT failed other than with 404 or whose POST failed.
C12_ReportedCount ==
  (SvLoopRan /\ pc = "exited") =>
    LET E == ObjectEntries(file)
        prim == PrimitiveEntries(file)
        failed == {i \in prim : \E j \in 1..Len(net) :
                     /\ net[j].key = E[i].key
                     /\ \/ net[j].method = "PUT" /\ net[j].resp \in {"error", "neterr"}
                        \/ net[j].method = "POST" /\ net[j].resp # "ok"}
    IN reported = Cardinality(prim) - Cardinality(failed)

\* The document {"A":"1","B":true} with both keys absent remotely and every
\* call succeeding: two creates, a reported count of 2.
C12_Witness ==
  /\ prog = "sv" /\ pc = "exited"
  /\ file.exists /\ file.wellFormed /\ file.top = "object"
  /\ file.values = <<"string", "boolean">>
  /\ Len(SelectSeq(net, LAMBDA r : r.method = "POST" /\ r.resp = "ok")) = 2
  /\ Len(net) = 4
  /\ reported = 2

\* The requests among the events of a remove-pipelines run.
SentEvents(h) == SelectSeq(h, LAMBDA e : e.ev \in {"GET", "DELETE"})

\* C13: in remove-pipelines at most one request is outstanding, the last one
\* sent; the DELETEs go out in listing order; and the event that follows a
\* DELETE is the elapse of a sleep of DELAY_MS, before any further request.
C13_SequentialWithDelay ==
  prog = "rp" =>
    /\ Pending(net) \subseteq {Len(net)}
    /\ LET D == Deletes(net)
       IN \A k \in 1..(Len(D) - 1) : D[k].n < D[k + 1].n
    /\ LET S == SentEvents(hist)
       IN /\ Len(S) = Len(net)
          /\ \A i \in 1..Len(S) : S[i].ev = net[i].method
    /\ \A i \in 1..(Len(hist) - 1) :
         hist[i].ev = "DELETE" => hist[i + 1] = Elapsed("sleep", cfg.DELAY_MS)
    /\ (pc \in {"deleting", "sleeping"} /\ hist # <<>>) => hist[Len(hist)].ev = "DELETE"

C13_Witness ==
  /\ prog = "rp"
  /\ cfg.DELAY_MS = DefaultDelayMs
  /\ \E i \in 1..(Len(hist) - 4) :
       /\ hist[i].ev = "DELETE"
       /\ hist[i + 1] = Elapsed("sleep", DefaultDelayMs)
       /\ hist[i + 2].ev = "DELETE"
       /\ hist[i + 3] = Elapsed("sleep", DefaultDelayMs)
       /\ hist[i + 4].ev = "GET"

\* C15: in remove-pipelines the confirmation delay elapses at most once, it
\* is the first event of every run that sends a request, it has elapsed
\* exactly once as soon as main runs, and while it is pending (a process
\* killed then stays there) no request has been sent.
C15_ConfirmationFirst ==
  prog = "rp" =>
    LET C == {i \in 1..Len(hist) : hist[i].ev = "confirm"}
    IN /\ Cardinality(C) <= 1
       /\ net # <<>> => (hist # <<>> /\ hist[1] = Elapsed("confirm", ConfirmDelayMs))
       /\ pc \in {"fetching", "deleting", "sleeping"} => C = {1}
       /\ pc \in {"start", "confirm"} => (net = <<>> /\ hist = <<>>)

C15_Witness ==
  /\ prog = "rp" /\ pc = "exited" /\ exitCode = 0
  /\ totalDeleted = 2
  /\ hist[1] = Elapsed("confirm", ConfirmDelayMs)
  /\ hist[2].ev = "GET"

C16_DeleteNamesScope ==
  prog = "re" =>
    \A i \in 1..Len(net) :
      net[i].method = "DELETE" =>
        /\ net[i].key # ""
        /\ net[i].scope = "env"
        /\ \E g \in 1..(i - 1) : net[g].method = "GET" /\ net[g].scope = net[i].scope

\* remove-env-vars has left its listing loop without a failure.
ListingOver ==
  /\ prog = "re"
  /\ \/ pc = "deleting"
     \/ pc = "exited" /\ Gets(net) # <<>> /\ ~Failed(Gets(net)[Len(Gets(net))])

\* The number of items of the last page that remove-env-vars fetched.
LastPageLen == Len(allVariables) - (Len(Gets(net)) - 1) * pageSize

\* In remove-pipelines a page that came back is followed by a request only
\* if it held an item (the request is then the DELETE of its first item), so
\* nothing follows an empty page; a run that ends well ends on a GET.
C17_RpStopsOnEmptyPage ==
  prog = "rp" =>
    /\ \A i \in 1..(Len(net) - 1) :
         (net[i].method = "GET" /\ net[i].resp = "ok") => net[i + 1].method = "DELETE"
    /\ (pc = "exited" /\ exitCode = 0 /\ net # <<>>) =>
         (net[Len(net)].method = "GET" /\ net[Len(net)].resp = "ok")

\* In remove-env-vars a further page is requested only after full pages, and
\* with the x-total-pages header the listing stops at the page it announces.
C17_ReStopsAsSignalled ==
  prog = "re" =>
    /\ pc = "listing" => Len(allVariables) = (page - 1) * pageSize
    /\ (ListingOver /\ hasHeader) =>
         Len(Gets(net)) * pageSize >= Len(allVariables) /\ LastPageLen <= pageSize

\* C17: both listing loops stop as soon as no more pages are signalled or a
\* page is empty, request nothing after an empty page, and without the
\* x-total-pages header go on until an empty or undersized page.
C17_StopRule ==
  /\ C17_RpStopsOnEmptyPage
  /\ C17_ReStopsAsSignalled
  /\ (ListingOver /\ ~hasHeader) => LastPageLen < pageSize

\* The number of pipelines the remote held when the run began.
InitialPipelines == totalDeleted + Len(rpRemote)

\* C18: with every request eventually answered, remove-pipelines ends; it
\* has then sent at most one GET per DELETE plus one and at most one DELETE
\* per initial pipeline, and every page it went past deleted a pipeline.
C18_Terminates ==
  /\ <>(pc = "exited")
  /\ [](/\ Len(Deletes(net)) <= InitialPipelines
        /\ Len(Gets(net)) <= Len(Deletes(net)) + 1
        /\ Len(net) <= 2 * InitialPipelines + 1
        /\ pc \in {"fetching", "deleting", "sleeping"} => totalDeleted >= page - 1)

\* A run over four pipelines with batch size 1 that ended well after three
\* pages and two deletions.
C18_Witness ==
  /\ prog = "rp" /\ pc = "exited" /\ exitCode = 0
  /\ cfg.BATCH_SIZE = 1
  /\ page = 3 /\ totalDeleted = 2
  /\ Len(net) = 5

====
